---- MODULE Spec2Model ----
(***************************************************************************)
(* Model of rs-benchmark.py: the `insert` command.  One process, one       *)
(* connection.  The program position is pc; every cur.execute call is one  *)
(* step, so that a failing statement can end the run between statements.   *)
(* Generated row-tuples are identified by their position in the generated  *)
(* sequence; a slice data[x:x+m] is the range of positions it holds.        *)
(***************************************************************************)
EXTENDS Integers, Sequences, FiniteSets

VARIABLES
    pc,              \* position in insert() / the __main__ block
    scenario,        \* -s option
    requested,       \* -n option as given on the command line
    nbr_of_records,  \* the local nbr_of_records (reassigned at line 220)
    copy_s3_path,    \* "None" or "set"
    copy_iam_role,   \* "None" or "set"
    conn,            \* local conn of insert(): "unset", "None" or "open"
    connClosed,      \* TRUE once close() was called on the connection
    closeAttempts,   \* number of close() calls that reached a connection
    nullUses,        \* number of uses of conn made while it is None
    cur,             \* scenario whose block is being executed
    tableExists,     \* database: the staging table exists
    rows,            \* database: number of rows in the staging table
    stmts,           \* every statement handed to cur.execute, with its result
    out,             \* lines written by click.secho / logger.info / logger.error
    started,         \* scenarios entered, in order
    inits,           \* number of _init_table calls per scenario
    all_data,        \* number of row-tuples generated by the scenario
    x,               \* loop variable of the chunk loop / the classic loop
    csvLines,        \* lines of the CSV file written by the copy scenario
    exit             \* "running", "ok", "exit1" (sys.exit(1)) or "exception"

vars == <<pc, scenario, requested, nbr_of_records, copy_s3_path, copy_iam_role,
          conn, connClosed, closeAttempts, nullUses, cur, tableExists, rows,
          stmts, out, started, inits, all_data, x, csvLines, exit>>

\* ---------------------------------------------------------------- bounds
MaxChunks == 2
PreRows == 3

\* ------------------------------------------------------ program constants
max_nbr_of_tuples == 50000
max_records == 100

Scenarios == {"all", "classic", "bulk", "copy"}
Strategies == {"bulk", "copy", "classic"}

\* names bound at module level when the __main__ block runs
module_globals == {"logger", "password", "table_name", "main", "insert",
                   "_get_random_string", "_init_logger", "_connect_redshift",
                   "_execute", "_init_table"}

\* record counts given with -n
Records ==
    {0, 1, 5, max_records - 1, max_records, max_records + 1}
    \cup {k * max_nbr_of_tuples + d : k \in 1..MaxChunks, d \in {-1, 0, 1}}

Min(a, b) == IF a < b THEN a ELSE b

CeilDiv(n, d) == (n + d - 1) \div d

\* ---------------------------------------------------------------- database
\* Results cur.execute can give for a statement of the given kind carrying k
\* row-tuples, when the table holds `rws` rows (or does not exist).
Result(e, ex, r) == [err |-> e, exists |-> ex, rows |-> r]

\* variant: CREATE accepted on an existing table, whose rows stay
OutcomesCreateKeeps(kind, k, exists, rws) ==
    CASE kind = "drop" ->
            IF exists THEN {Result("ok", FALSE, 0), Result("other", TRUE, rws)}
            ELSE {Result("undefined_table", FALSE, 0), Result("other", FALSE, 0)}
      [] kind = "create" ->
            IF exists THEN {Result("ok", TRUE, rws)}
            ELSE {Result("ok", TRUE, 0), Result("other", FALSE, 0)}
      [] OTHER ->
            IF k = 0 /\ kind # "copy" THEN {Result("syntax_error", exists, rws)}
            ELSE IF ~exists THEN {Result("undefined_table", FALSE, 0)}
            ELSE {Result("ok", TRUE, rws + k), Result("other", TRUE, rws)}

Outcomes(kind, k, exists, rws) ==
    CASE kind = "drop" ->
            IF exists THEN {Result("ok", FALSE, 0), Result("other", TRUE, rws)}
            ELSE {Result("undefined_table", FALSE, 0), Result("other", FALSE, 0)}
      [] kind = "create" ->
            IF exists THEN {Result("duplicate_table", TRUE, rws)}
            ELSE {Result("ok", TRUE, 0), Result("other", FALSE, 0)}
      [] OTHER ->
            IF k = 0 /\ kind # "copy" THEN {Result("syntax_error", exists, rws)}
            ELSE IF ~exists THEN {Result("undefined_table", FALSE, 0)}
            ELSE {Result("ok", TRUE, rws + k), Result("other", TRUE, rws)}

\* the log entry of one cur.execute call: lo..hi are the positions of the
\* row-tuples the statement carries (lo > hi: none)
Stmt(kind, lo, hi, e) == [kind |-> kind, scen |-> cur, lo |-> lo, hi |-> hi, err |-> e]

\* ------------------------------------------------------------------- slices
\* variant: the slice end is not clipped to the length of the data
SliceHiUnclipped(xx, len) == xx + max_nbr_of_tuples

\* data[x:x+max_nbr_of_tuples] of a sequence of length len holds the
\* positions x+1 .. min(x+max_nbr_of_tuples, len)
SliceHi(xx, len) == Min(xx + max_nbr_of_tuples, len)

\* --------------------------------------------------------------------- Init
Init ==
    /\ pc = "connect"
    /\ scenario \in Scenarios
    /\ requested \in Records
    /\ nbr_of_records = requested
    /\ copy_s3_path \in {"None", "set"}
    /\ copy_iam_role \in {"None", "set"}
    /\ conn = "unset"
    /\ connClosed = FALSE
    /\ closeAttempts = 0
    /\ nullUses = 0
    /\ cur = "none"
    /\ tableExists \in BOOLEAN
    /\ rows = IF tableExists THEN PreRows ELSE 0
    /\ stmts = <<>>
    /\ out = <<>>
    /\ started = <<>>
    /\ inits = [s \in Strategies |-> 0]
    /\ all_data = 0
    /\ x = 0
    /\ csvLines = 0
    /\ exit = "running"

\* an exception leaves insert(): the finally block of __main__ runs next
Raise ==
    /\ exit' = "exception"
    /\ pc' = "finally"

\* ------------------------------------------------------ _connect_redshift
Connect ==
    /\ pc = "connect"
    /\ \E ok \in BOOLEAN :
         IF ok
         THEN conn' = "open" /\ out' = out
         ELSE conn' = "None" /\ out' = Append(out, "connect_error")
    /\ pc' = "bulk_check"
    /\ UNCHANGED <<scenario, requested, nbr_of_records, copy_s3_path, copy_iam_role,
                   connClosed, closeAttempts, nullUses, cur, tableExists, rows,
                   stmts, started, inits, all_data, x, csvLines, exit>>

\* ------------------------------------------------------------- _init_table
\* the try block: drop table; any exception is logged at debug level and
\* ignored, the one raised by using a None connection included
InitDrop ==
    /\ pc = "init_drop"
    /\ inits' = [inits EXCEPT ![cur] = @ + 1]
    /\ IF conn = "None"
       THEN /\ nullUses' = nullUses + 1
            /\ UNCHANGED <<tableExists, rows, stmts>>
       ELSE /\ \E r \in Outcomes("drop", 0, tableExists, rows) :
                 /\ tableExists' = r.exists
                 /\ rows' = r.rows
                 /\ stmts' = Append(stmts, Stmt("drop", 1, 0, r.err))
            /\ UNCHANGED nullUses
    /\ pc' = "init_create"
    /\ UNCHANGED <<scenario, requested, nbr_of_records, copy_s3_path, copy_iam_role,
                   conn, connClosed, closeAttempts, cur, out, started,
                   all_data, x, csvLines, exit>>

\* where a scenario continues after its _init_table call
AfterInit(s) ==
    CASE s = "bulk" -> "bulk_gen"
      [] s = "copy" -> "copy_gen"
      [] OTHER -> "classic_loop"

\* create temp table, outside the try block, then the logger.info line
InitCreate ==
    /\ pc = "init_create"
    /\ IF conn = "None"
       THEN /\ nullUses' = nullUses + 1
            /\ Raise
            /\ UNCHANGED <<tableExists, rows, stmts, out, x>>
       ELSE /\ \E r \in Outcomes("create", 0, tableExists, rows) :
                 /\ tableExists' = r.exists
                 /\ rows' = r.rows
                 /\ stmts' = Append(stmts, Stmt("create", 1, 0, r.err))
                 /\ IF r.err = "ok"
                    THEN /\ out' = Append(out, "create_table_info")
                         /\ pc' = AfterInit(cur)
                         /\ x' = IF cur = "classic" THEN 1 ELSE 0
                         /\ UNCHANGED exit
                    ELSE /\ Raise
                         /\ UNCHANGED <<out, x>>
            /\ UNCHANGED nullUses
    /\ UNCHANGED <<scenario, requested, nbr_of_records, copy_s3_path, copy_iam_role,
                   conn, connClosed, closeAttempts, cur, started, inits,
                   all_data, csvLines>>

\* --------------------------------------------------- insert: bulk scenario
\* BulkCheck with the clamp of line 218 hoisted above the first scenario
BulkCheckClamps ==
    /\ pc = "bulk_check"
    /\ nbr_of_records' = Min(nbr_of_records, max_records)
    /\ IF scenario \in {"bulk", "all"}
       THEN /\ cur' = "bulk"
            /\ started' = Append(started, "bulk")
            /\ pc' = "init_drop"
       ELSE /\ pc' = "copy_check"
            /\ UNCHANGED <<cur, started>>
    /\ UNCHANGED <<scenario, requested, copy_s3_path, copy_iam_role,
                   conn, connClosed, closeAttempts, nullUses, tableExists, rows,
                   stmts, out, inits, all_data, x, csvLines, exit>>

\* line 140: if scenario in ['bulk', 'all']
BulkCheck ==
    /\ pc = "bulk_check"
    /\ IF scenario \in {"bulk", "all"}
       THEN /\ cur' = "bulk"
            /\ started' = Append(started, "bulk")
            /\ pc' = "init_drop"
       ELSE /\ pc' = "copy_check"
            /\ UNCHANGED <<cur, started>>
    /\ UNCHANGED <<scenario, requested, nbr_of_records, copy_s3_path, copy_iam_role,
                   conn, connClosed, closeAttempts, nullUses, tableExists, rows,
                   stmts, out, inits, all_data, x, csvLines, exit>>

\* lines 155-164: all_data becomes a tuple of nbr_of_records row-tuples
BulkGenerate ==
    /\ pc = "bulk_gen"
    /\ all_data' = nbr_of_records
    /\ pc' = "bulk_exec"
    /\ UNCHANGED <<scenario, requested, nbr_of_records, copy_s3_path, copy_iam_role,
                   conn, connClosed, closeAttempts, nullUses, cur, tableExists, rows,
                   stmts, out, started, inits, x, csvLines, exit>>

\* _execute(conn, sql, data=all_data) up to the branch on `if data:`.
\* An empty tuple is falsy: the VALUES-less INSERT text itself is executed.
BulkExecute ==
    /\ pc = "bulk_exec"
    /\ IF conn = "None"
       THEN /\ nullUses' = nullUses + 1
            /\ Raise
            /\ UNCHANGED <<tableExists, rows, stmts, x>>
       ELSE /\ UNCHANGED nullUses
            /\ IF all_data > 0
               THEN /\ x' = 0
                    /\ pc' = "bulk_chunk"
                    /\ UNCHANGED <<tableExists, rows, stmts, exit>>
               ELSE /\ \E r \in Outcomes("insert_values", 0, tableExists, rows) :
                         /\ tableExists' = r.exists
                         /\ rows' = r.rows
                         /\ stmts' = Append(stmts, Stmt("insert_values", 1, 0, r.err))
                         /\ IF r.err = "ok"
                            THEN pc' = "bulk_print" /\ UNCHANGED exit
                            ELSE Raise
                    /\ UNCHANGED x
    /\ UNCHANGED <<scenario, requested, nbr_of_records, copy_s3_path, copy_iam_role,
                   conn, connClosed, closeAttempts, cur, out, started, inits,
                   all_data, csvLines>>

\* one iteration of `for x in range(0, len(data), max_nbr_of_tuples)`
BulkChunk ==
    /\ pc = "bulk_chunk"
    /\ x < all_data
    /\ LET hi == SliceHi(x, all_data) IN
       \E r \in Outcomes("insert_values", hi - x, tableExists, rows) :
         /\ tableExists' = r.exists
         /\ rows' = r.rows
         /\ stmts' = Append(stmts, Stmt("insert_values", x + 1, hi, r.err))
         /\ IF r.err = "ok"
            THEN /\ x' = x + max_nbr_of_tuples
                 /\ pc' = IF x + max_nbr_of_tuples < all_data
                          THEN "bulk_chunk" ELSE "bulk_print"
                 /\ UNCHANGED exit
            ELSE /\ Raise
                 /\ UNCHANGED x
    /\ UNCHANGED <<scenario, requested, nbr_of_records, copy_s3_path, copy_iam_role,
                   conn, connClosed, closeAttempts, nullUses, cur, out, started,
                   inits, all_data, csvLines>>

\* line 168
BulkPrint ==
    /\ pc = "bulk_print"
    /\ out' = Append(out, "bulk_timing")
    /\ pc' = "copy_check"
    /\ UNCHANGED <<scenario, requested, nbr_of_records, copy_s3_path, copy_iam_role,
                   conn, connClosed, closeAttempts, nullUses, cur, tableExists, rows,
                   stmts, started, inits, all_data, x, csvLines, exit>>

\* --------------------------------------------------- insert: copy scenario
\* lines 170-175: the parameter check, sys.exit(1) when one is missing
CopyCheck ==
    /\ pc = "copy_check"
    /\ IF scenario \in {"copy", "all"}
       THEN IF ~(copy_iam_role = "set" /\ copy_s3_path = "set")
            THEN /\ out' = Append(out, "copy_params_error")
                 /\ exit' = "exit1"
                 /\ pc' = "finally"
                 /\ UNCHANGED <<cur, started>>
            ELSE /\ cur' = "copy"
                 /\ started' = Append(started, "copy")
                 /\ pc' = "init_drop"
                 /\ UNCHANGED <<out, exit>>
       ELSE /\ pc' = "classic_check"
            /\ UNCHANGED <<cur, started, out, exit>>
    /\ UNCHANGED <<scenario, requested, nbr_of_records, copy_s3_path, copy_iam_role,
                   conn, connClosed, closeAttempts, nullUses, tableExists, rows,
                   stmts, inits, all_data, x, csvLines>>

\* lines 183-198: generate nbr_of_records rows and write them with a header
\* line; writing the file can fail
CopyWriteCsv ==
    /\ pc = "copy_gen"
    /\ all_data' = nbr_of_records
    /\ \E ok \in BOOLEAN :
         IF ok
         THEN /\ csvLines' = nbr_of_records + 1
              /\ pc' = "copy_exec"
              /\ UNCHANGED exit
         ELSE /\ Raise
              /\ UNCHANGED csvLines
    /\ UNCHANGED <<scenario, requested, nbr_of_records, copy_s3_path, copy_iam_role,
                   conn, connClosed, closeAttempts, nullUses, cur, tableExists, rows,
                   stmts, out, started, inits, x>>

\* line 211: the COPY statement (IGNOREHEADER AS 1), then line 213
CopyExecute ==
    /\ pc = "copy_exec"
    /\ IF conn = "None"
       THEN /\ nullUses' = nullUses + 1
            /\ Raise
            /\ UNCHANGED <<tableExists, rows, stmts, out>>
       ELSE /\ UNCHANGED nullUses
            /\ \E r \in Outcomes("copy", csvLines - 1, tableExists, rows) :
                 /\ tableExists' = r.exists
                 /\ rows' = r.rows
                 /\ stmts' = Append(stmts, Stmt("copy", 1, csvLines - 1, r.err))
                 /\ IF r.err = "ok"
                    THEN /\ out' = Append(out, "copy_timing")
                         /\ pc' = "classic_check"
                         /\ UNCHANGED exit
                    ELSE /\ Raise
                         /\ UNCHANGED out
    /\ UNCHANGED <<scenario, requested, nbr_of_records, copy_s3_path, copy_iam_role,
                   conn, connClosed, closeAttempts, cur, started, inits,
                   all_data, x, csvLines>>

\* ------------------------------------------------ insert: classic scenario
\* lines 215-220: the clamp to max_records, with its message
ClassicCheck ==
    /\ pc = "classic_check"
    /\ IF scenario \in {"classic", "all"}
       THEN /\ IF nbr_of_records > max_records
               THEN /\ out' = Append(out, "clamp_warning")
                    /\ nbr_of_records' = max_records
               ELSE UNCHANGED <<out, nbr_of_records>>
            /\ cur' = "classic"
            /\ started' = Append(started, "classic")
            /\ pc' = "init_drop"
       ELSE /\ pc' = "return"
            /\ UNCHANGED <<cur, started, out, nbr_of_records>>
    /\ UNCHANGED <<scenario, requested, copy_s3_path, copy_iam_role,
                   conn, connClosed, closeAttempts, nullUses, tableExists, rows,
                   stmts, inits, all_data, x, csvLines, exit>>

\* the values `for _ in range(1, nbr_of_records)` iterates over
ClassicRange(n) == 1 .. n - 1

\* one iteration of the loop of lines 237-245: a single-row INSERT
ClassicInsert ==
    /\ pc = "classic_loop"
    /\ x \in ClassicRange(nbr_of_records)
    /\ IF conn = "None"
       THEN /\ nullUses' = nullUses + 1
            /\ Raise
            /\ UNCHANGED <<tableExists, rows, stmts, x>>
       ELSE /\ UNCHANGED nullUses
            /\ \E r \in Outcomes("insert_row", 1, tableExists, rows) :
                 /\ tableExists' = r.exists
                 /\ rows' = r.rows
                 /\ stmts' = Append(stmts, Stmt("insert_row", x, x, r.err))
                 /\ IF r.err = "ok"
                    THEN /\ x' = x + 1
                         /\ pc' = "classic_loop"
                         /\ UNCHANGED exit
                    ELSE /\ Raise
                         /\ UNCHANGED x
    /\ UNCHANGED <<scenario, requested, nbr_of_records, copy_s3_path, copy_iam_role,
                   conn, connClosed, closeAttempts, cur, out, started, inits,
                   all_data, csvLines>>

\* the loop is exhausted: line 247
ClassicPrint ==
    /\ pc = "classic_loop"
    /\ x \notin ClassicRange(nbr_of_records)
    /\ out' = Append(out, "classic_timing")
    /\ pc' = "return"
    /\ UNCHANGED <<scenario, requested, nbr_of_records, copy_s3_path, copy_iam_role,
                   conn, connClosed, closeAttempts, nullUses, cur, tableExists, rows,
                   stmts, started, inits, all_data, x, csvLines, exit>>

\* ---------------------------------------------------------- __main__ block
\* insert() returns; click's main() leaves through sys.exit(0)
Return ==
    /\ pc = "return"
    /\ exit' = "ok"
    /\ pc' = "finally"
    /\ UNCHANGED <<scenario, requested, nbr_of_records, copy_s3_path, copy_iam_role,
                   conn, connClosed, closeAttempts, nullUses, cur, tableExists, rows,
                   stmts, out, started, inits, all_data, x, csvLines>>

\* lines 252-257: conn.close() looks `conn` up at module level; conn is a
\* local of insert(), so the lookup raises NameError, which is swallowed
Cleanup ==
    /\ pc = "finally"
    /\ IF "conn" \in module_globals /\ conn = "open"
       THEN /\ connClosed' = TRUE
            /\ closeAttempts' = closeAttempts + 1
       ELSE UNCHANGED <<connClosed, closeAttempts>>
    /\ pc' = "ended"
    /\ UNCHANGED <<scenario, requested, nbr_of_records, copy_s3_path, copy_iam_role,
                   conn, nullUses, cur, tableExists, rows, stmts, out, started,
                   inits, all_data, x, csvLines, exit>>

Next ==
    \/ Connect
    \/ BulkCheck
    \/ InitDrop
    \/ InitCreate
    \/ BulkGenerate
    \/ BulkExecute
    \/ BulkChunk
    \/ BulkPrint
    \/ CopyCheck
    \/ CopyWriteCsv
    \/ CopyExecute
    \/ ClassicCheck
    \/ ClassicInsert
    \/ ClassicPrint
    \/ Return
    \/ Cleanup

Spec == Init /\ [][Next]_vars

\* ================================================================== claims
Range(f) == {f[i] : i \in DOMAIN f}

Printed(line) == line \in Range(out)

IsLoad(s) == s.kind \in {"insert_values", "insert_row", "copy"}

IsBulkInsert(s) == s.kind = "insert_values"

IsClassicInsert(s) == s.kind = "insert_row"

\* the statements of the bulk scenario's _execute call, in execution order
BulkStmts == SelectSeq(stmts, IsBulkInsert)

ClassicStmts == SelectSeq(stmts, IsClassicInsert)

Size(s) == s.hi - s.lo + 1

Order(s) == CASE s = "bulk" -> 1 [] s = "copy" -> 2 [] OTHER -> 3

ParamsMissing == copy_s3_path = "None" \/ copy_iam_role = "None"

\* C1: classic strategy, 0 <= N <= 100, working connection: when the scenario
\* has completed, exactly N single-row INSERTs were executed, the table holds
\* exactly N rows and one classic timing line was printed.
C1_ClassicInsertsN ==
    (conn = "open" /\ requested <= max_records /\ Printed("classic_timing"))
        => /\ Len(ClassicStmts) = requested
           /\ rows = requested

\* C2: classic strategy, N > 100: the clamp warning is printed before any
\* insert, the effective count becomes 100 and, when the scenario has
\* completed, exactly 100 rows were inserted.
C2_ClassicClampInserts100 ==
    (requested > max_records /\ cur = "classic")
        => /\ Printed("clamp_warning")
           /\ nbr_of_records = max_records
           /\ (Printed("classic_timing")
                 => Len(ClassicStmts) = max_records /\ rows = max_records)

\* C3: bulk strategy, every N >= 0: never more than ceil(N/50000) INSERT
\* statements are executed, and when the scenario has completed exactly
\* ceil(N/50000) were executed and the table holds exactly N rows.
C3_BulkStatementCount ==
    /\ Len(BulkStmts) <= CeilDiv(requested, max_nbr_of_tuples)
    /\ pc = "bulk_print"
         => /\ Len(BulkStmts) = CeilDiv(requested, max_nbr_of_tuples)
            /\ rows = requested

\* C4: copy scenario selected ('copy' or 'all') with the storage path or the
\* role missing: the process ends with exit code 1 after the error message
\* and no SQL statement was executed during the run.
C4_MissingParamsExit1NoSql ==
    (scenario \in {"copy", "all"} /\ ParamsMissing /\ pc = "ended")
        => /\ exit = "exit1"
           /\ Printed("copy_params_error")
           /\ Len(stmts) = 0

\* C5: table initialisation runs exactly once per executed scenario, before
\* the scenario's first load statement, and leaves an existing, empty table:
\* no scenario's load starts with rows left by an earlier scenario.
LoadPending ==
    \/ pc \in {"bulk_gen", "bulk_exec", "copy_gen", "copy_exec"}
    \/ pc = "bulk_chunk" /\ x = 0
    \/ pc = "classic_loop" /\ x = 1

C5_InitOncePerScenarioEmptyTable ==
    /\ \A s \in Strategies :
         /\ inits[s] <= 1
         /\ inits[s] = 1 => s \in Range(started)
         /\ (s \in Range(started) /\ ~(cur = s /\ pc = "init_drop")) => inits[s] = 1
    /\ LoadPending => tableExists /\ rows = 0 /\ inits[cur] = 1
    /\ \A i \in 1..Len(stmts) :
         (IsLoad(stmts[i]) /\ \A j \in 1..(i-1) : IsLoad(stmts[j]) => stmts[j].scen # stmts[i].scen)
            => /\ i > 1
               /\ stmts[i-1].kind = "create"
               /\ stmts[i-1].err = "ok"
               /\ stmts[i-1].scen = stmts[i].scen

\* a later scenario of an 'all' run is about to load, after an earlier
\* scenario loaded rows into a table that already existed before the run
C5_Witness ==
    /\ scenario = "all"
    /\ cur = "copy"
    /\ pc = "copy_gen"
    /\ Printed("bulk_timing")
    /\ requested = 5
    /\ \E i \in 1..Len(stmts) : stmts[i].kind = "insert_values" /\ stmts[i].err = "ok"
    /\ stmts[1].kind = "drop" /\ stmts[1].err = "ok"
    /\ rows = 0

\* C6: connection failure: the error is logged, the run continues with a
\* None handle and the process ends with an unhandled error on the first
\* use of that handle; no later use is reached.
C6_CrashOnFirstNullUse ==
    conn = "None"
        => /\ Printed("connect_error")
           /\ nullUses <= 1
           /\ nullUses = 1 => exit = "exception"
           /\ pc = "ended" => (exit = "exception" /\ nullUses = 1)

\* C7: the only swallowed SQL failure is the DROP failing because the table
\* does not exist (the CREATE then follows); every other failed statement is
\* the last statement of the run, which ends with the exception; no failed
\* statement is issued again.
C7_OnlyMissingTableDropSwallowed ==
    \A i \in 1..Len(stmts) :
        stmts[i].err # "ok"
            => IF stmts[i].kind = "drop" /\ stmts[i].err = "undefined_table"
               THEN i < Len(stmts) => stmts[i+1].kind = "create"
               ELSE /\ i = Len(stmts)
                    /\ pc \in {"finally", "ended"}
                    /\ exit = "exception"

\* C8: bulk chunking of a non-empty sequence: the statements carry
\* consecutive slices in original order, each of 1..50000 tuples, each but
\* possibly the last of exactly 50000, and on completion the slices cover
\* positions 1..N exactly once.
C8_BulkChunksPartition ==
    LET B == BulkStmts IN
    (requested > 0 /\ Len(B) > 0)
        => /\ B[1].lo = 1
           /\ \A j \in 1..Len(B) :
                /\ Size(B[j]) >= 1
                /\ Size(B[j]) <= max_nbr_of_tuples
                /\ B[j].hi <= requested
                /\ j < Len(B) => /\ Size(B[j]) = max_nbr_of_tuples
                                 /\ B[j].err = "ok"
                                 /\ B[j+1].lo = B[j].hi + 1
           /\ pc = "bulk_print" => (B[Len(B)].hi = all_data /\ all_data = requested)

\* three statements were executed, the last one a partial chunk
C8_Witness ==
    /\ pc = "bulk_print"
    /\ Len(BulkStmts) = 3
    /\ Size(BulkStmts[3]) = 1
    /\ Size(BulkStmts[1]) = max_nbr_of_tuples

\* C9: whenever the process ends after a connection was opened, the final
\* cleanup has attempted to close that connection; the cleanup does not
\* change how the process ends.
C9_CleanupClosesConnection ==
    (pc = "ended" /\ conn = "open") => closeAttempts = 1

\* C10: the strategies run in the order bulk, copy, classic, each at most
\* once; the clamp to 100 is applied only on entering classic: bulk and copy
\* generate and load the full N rows, classic uses min(N, 100).
C10_OrderAndLateClamp ==
    /\ \A i, j \in 1..Len(started) : i < j => Order(started[i]) < Order(started[j])
    /\ scenario = "all" => \A i \in 1..Len(started) : Order(started[i]) = i
    /\ cur \in {"none", "bulk", "copy"} => nbr_of_records = requested
    /\ cur = "classic" => nbr_of_records = Min(requested, max_records)
    /\ pc = "bulk_print" /\ requested > 0 => (all_data = requested /\ rows = requested)
    /\ pc = "copy_exec" => (all_data = requested /\ csvLines = requested + 1)
    /\ (cur = "copy" /\ pc = "classic_check") => rows = requested

\* an 'all' run with N > 100 has loaded N rows twice and entered classic
C10_Witness ==
    /\ scenario = "all"
    /\ requested > max_records
    /\ started = <<"bulk", "copy", "classic">>
    /\ Printed("bulk_timing") /\ Printed("copy_timing")
    /\ pc = "classic_loop"
    /\ nbr_of_records = max_records

====
